---- MODULE Spec2Model ----
(***************************************************************************)
(* A model of analyze-lint.py: run_lint, parse_lint_output,                *)
(* print_detailed_output, print_summary and main.                          *)
(*                                                                         *)
(* Text.  A Python str is a sequence of symbols.  A symbol is one          *)
(* character (" ", "\t", "\n", ":", a digit, a letter) or one of the       *)
(* literals the program looks for, kept whole: "error", "warning", ".ts"   *)
(* and "P", the project path                                               *)
(* '/Volumes/samsung_t9/projects/raycast-cyrup/rio-launcher/'.  The        *)
(* literal '.tsx' is the two symbols ".ts", "x", so that a text holding    *)
(* '.tsx' holds '.ts' as in Python.                                        *)
(*                                                                         *)
(* Environment.  Writing the log files is taken to succeed; the only       *)
(* failure the program handles is an exception of subprocess.run.          *)
(***************************************************************************)
EXTENDS Integers, Sequences, FiniteSets, TLC

VARIABLES
    pc,             \* main's position
    started,        \* environment: subprocess.run returned (did not raise)
    returncode,     \* environment: exit status of the lint command
    output,         \* main's `output`: captured stdout + stderr
    logs,           \* the three raw logs in /tmp: name -> content or Absent
    lines,          \* parse_lint_output's `lines`
    idx,            \* parse_lint_output's position in `lines` (next line)
    current_file,   \* parse_lint_output's `current_file`
    errors_by_file, \* the mapping: sequence of [file, errors], insertion order
    console,        \* what was printed to the real stdout, in order
    summaryOut,     \* what print_summary printed, one entry per call
    detailedLog,    \* /tmp/lint-detailed.log: one entry per rendering
    exitStatus      \* the exit status of the process

vars == << pc, started, returncode, output, logs, lines, idx, current_file,
           errors_by_file, console, summaryOut, detailedLog, exitStatus >>

----------------------------------------------------------------------------
(* Bounds of the model *)

\* main specification: the captured text has at most MaxLines lines
MaxLines == 3
\* report specification, summary inputs: a file has at most MaxRules distinct
\* rules, each met once, and at most MaxExtra further diagnostics
MaxRules == 11
MaxExtra == 2
\* report specification, detailed inputs: lines of the captured text
MaxDetailLines == 5

----------------------------------------------------------------------------
(* Characters and the str methods the program uses *)

Digits == <<"0", "1", "2", "3", "4", "5", "6", "7", "8", "9">>

\* \s of re, and the whitespace of str.strip / str.split
IsSpace(c) == c \in {" ", "\t", "\n"}

\* \d of re
IsDigit(c) == \E d \in 1..10 : Digits[d] = c

\* the literals of the program
PROJECT == <<"P">>
TS == <<".ts">>
TSX == <<".ts", "x">>
SPACE == <<" ">>
NL == "\n"

\* pat in s
Contains(s, pat) ==
    \E i \in 1..(Len(s) - Len(pat) + 1) : SubSeq(s, i, i + Len(pat) - 1) = pat

\* s.startswith(pat)
StartsWith(s, pat) ==
    Len(s) >= Len(pat) /\ SubSeq(s, 1, Len(pat)) = pat

RECURSIVE LStrip(_)
LStrip(s) ==
    IF s # <<>> /\ IsSpace(Head(s)) THEN LStrip(Tail(s)) ELSE s

RECURSIVE RStrip(_)
RStrip(s) ==
    IF s # <<>> /\ IsSpace(s[Len(s)]) THEN RStrip(SubSeq(s, 1, Len(s) - 1)) ELSE s

\* s.strip()
Strip(s) == RStrip(LStrip(s))

\* s.replace(pat, '') for a one-symbol pat
RemoveAll(s, pat) == SelectSeq(s, LAMBDA c : <<c>> # pat)

\* text.split('\n'): the pieces between the newlines, at least one piece
SplitLines(text) ==
    LET nls == {i \in 1..Len(text) : text[i] = NL}
        \* the position of the k-th newline; the end of the text stands for the last
        nl(k) == IF k > Cardinality(nls) THEN Len(text) + 1
                 ELSE CHOOSE i \in nls : Cardinality({j \in nls : j < i}) = k - 1
    IN  [k \in 1..(Cardinality(nls) + 1) |->
            SubSeq(text, IF k = 1 THEN 1 ELSE nl(k - 1) + 1, nl(k) - 1)]

\* s.split(): the maximal runs of non-whitespace
RECURSIVE SplitWords(_)
SplitWords(s) ==
    LET t == LStrip(s)
    IN  IF t = <<>> THEN <<>>
        ELSE LET e == IF \E i \in 1..Len(t) : IsSpace(t[i])
                      THEN (CHOOSE j \in 1..Len(t) :
                               IsSpace(t[j]) /\ \A k \in 1..(j - 1) : ~IsSpace(t[k])) - 1
                      ELSE Len(t)
             IN  <<SubSeq(t, 1, e)>> \o SplitWords(SubSeq(t, e + 1, Len(t)))

\* int(s) for a string of digits
RECURSIVE ParseInt(_)
ParseInt(s) ==
    IF s = <<>> THEN 0
    ELSE 10 * ParseInt(SubSeq(s, 1, Len(s) - 1))
         + ((CHOOSE d \in 1..10 : Digits[d] = s[Len(s)]) - 1)

\* str(n) for n >= 0
RECURSIVE FormatInt(_)
FormatInt(n) ==
    IF n < 10 THEN <<Digits[n + 1]>>
    ELSE FormatInt(n \div 10) \o <<Digits[(n % 10) + 1]>>

----------------------------------------------------------------------------
(* The two regular expressions of parse_lint_output *)

\* the end of the run of whitespace that starts at i (i - 1 when there is none)
RECURSIVE SpaceRunEnd(_, _)
SpaceRunEnd(s, i) ==
    IF i <= Len(s) /\ IsSpace(s[i]) THEN SpaceRunEnd(s, i + 1) ELSE i - 1

\* the end of the run of digits that starts at i (i - 1 when there is none)
RECURSIVE DigitRunEnd(_, _)
DigitRunEnd(s, i) ==
    IF i <= Len(s) /\ IsDigit(s[i]) THEN DigitRunEnd(s, i + 1) ELSE i - 1

AllSpace(s, i, j) == \A k \in i..j : IsSpace(s[k])
NoSpace(s, i, j) == \A k \in i..j : ~IsSpace(s[k])

(* ^\s+(\d+):(\d+)\s+(error|warning) at the start of the line.  Each greedy   *)
(* run is followed by a character outside its class, so the run a match     *)
(* uses is the maximal one.  The result gives where each part ends; sev = 0 *)
(* when the line does not match.                                            *)
MatchHead(line) ==
    LET s1 == SpaceRunEnd(line, 1)
        d1 == DigitRunEnd(line, s1 + 1)
        d2 == DigitRunEnd(line, d1 + 2)
        s2 == SpaceRunEnd(line, d2 + 1)
        ok == /\ s1 >= 1
              /\ d1 > s1
              /\ d1 + 1 <= Len(line)
              /\ line[d1 + 1] = ":"
              /\ d2 > d1 + 1
              /\ s2 > d2
              /\ s2 + 1 <= Len(line)
              /\ line[s2 + 1] \in {"error", "warning"}
    IN  [s1 |-> s1, d1 |-> d1, d2 |-> d2, sev |-> IF ok THEN s2 + 1 ELSE 0]

\* re.match(r'^\s+\d+:\d+\s+(error|warning)', line)
MatchesDiagnostic(line) == MatchHead(line).sev # 0

\* the last whitespace of the line after k (the length of the line when none)
LastSpace(line, k) ==
    LET n == Len(line)
    IN  IF \E i \in (k + 1)..n : IsSpace(line[i])
        THEN CHOOSE i \in (k + 1)..n : IsSpace(line[i]) /\ NoSpace(line, i + 1, n)
        ELSE n

(* \s+(.+?)\s+(@?\S+)$ after the severity at k.  The rule is the run of      *)
(* non-whitespace that ends the line, after the last whitespace at c.  A    *)
(* match is a pair <<a, b>>: the first \s+ is k+1..a, the message a+1..b,   *)
(* the second \s+ is b+1..c.                                                *)
TailMatches(line, k) ==
    LET n == Len(line)
        c == LastSpace(line, k)
    IN  { m \in ((k + 1)..n) \X ((k + 1)..n) :
            /\ c < n
            /\ m[1] < m[2]
            /\ m[2] < c
            /\ AllSpace(line, k + 1, m[1])
            /\ AllSpace(line, m[2] + 1, c) }

(* The match re.match returns: the first \s+ is greedy (the longest a that  *)
(* leaves a match), the message is lazy (then the shortest b).              *)
FirstTailMatch(line, k) ==
    LET ms == TailMatches(line, k)
        a == CHOOSE x \in {m[1] : m \in ms} : \A y \in {m[1] : m \in ms} : y <= x
        b == CHOOSE x \in {m[2] : m \in {q \in ms : q[1] = a}} :
                 \A y \in {m[2] : m \in {q \in ms : q[1] = a}} : x <= y
    IN  <<a, b>>

\* re.match(r'^\s+(\d+):(\d+)\s+(error|warning)\s+(.+?)\s+(@?\S+)$', line)
Decomposes(line) ==
    LET h == MatchHead(line)
    IN  h.sev # 0 /\ TailMatches(line, h.sev) # {}

\* the groups of the match, for a line that decomposes
Groups(line) ==
    LET h == MatchHead(line)
        m == FirstTailMatch(line, h.sev)
    IN  [ line_num |-> ParseInt(SubSeq(line, h.s1 + 1, h.d1)),
          col_num  |-> SubSeq(line, h.d1 + 2, h.d2),
          severity |-> line[h.sev],
          message  |-> Strip(SubSeq(line, m[1] + 1, m[2])),
          rule     |-> SubSeq(line, LastSpace(line, h.sev) + 1, Len(line)) ]

\* the tuple appended for a line that decomposes
MakeRecord(line) ==
    LET g == Groups(line)
    IN  [ line_num |-> g.line_num,
          text     |-> FormatInt(g.line_num) \o <<":">> \o g.col_num \o SPACE
                         \o <<g.severity>> \o SPACE \o g.message \o SPACE \o g.rule,
          severity |-> g.severity ]

----------------------------------------------------------------------------
(* parse_lint_output *)

\* current_file = None
None == <<"None">>

\* the truth value of current_file: None and '' are false
Truthy(f) == f # None /\ f # <<>>

\* the condition of line 39, `A and B and C or D`, which Python reads (A and B and C) or D
IsPathLine(line) ==
    \/ (Strip(line) # <<>> /\ ~StartsWith(line, SPACE) /\ Contains(line, TS))
    \/ Contains(line, TSX)

\* the condition of line 40
InProject(line) == Contains(line, PROJECT)

HasKey(m, file) == \E i \in 1..Len(m) : m[i].file = file

\* errors_by_file[file].append(rec) on a defaultdict(list): a new key goes last
AppendError(m, file, rec) ==
    IF HasKey(m, file)
    THEN [i \in 1..Len(m) |->
            IF m[i].file = file
            THEN [file |-> file, errors |-> Append(m[i].errors, rec)]
            ELSE m[i]]
    ELSE Append(m, [file |-> file, errors |-> <<rec>>])

\* PathBranch reading errors_by_file[current_file]: the defaultdict makes the key
PathBranchTouchingKey(st, line) ==
    IF InProject(line)
    THEN [current_file |-> Strip(line),
          errors_by_file |->
              IF HasKey(st.errors_by_file, Strip(line)) THEN st.errors_by_file
              ELSE Append(st.errors_by_file, [file |-> Strip(line), errors |-> <<>>])]
    ELSE st

\* the branch of line 39: a path line
PathBranch(st, line) ==
    IF InProject(line)
    THEN [current_file |-> Strip(line), errors_by_file |-> st.errors_by_file]
    ELSE st

\* the branch of line 44: an error or warning line
DiagnosticBranch(st, line) ==
    IF Decomposes(line)
    THEN [current_file |-> st.current_file,
          errors_by_file |-> AppendError(st.errors_by_file, st.current_file,
                                         MakeRecord(line))]
    ELSE st

\* one pass of the loop of line 37; st is [current_file, errors_by_file]
ParseStep(st, line) ==
    IF IsPathLine(line) THEN PathBranch(st, line)
    ELSE IF Truthy(st.current_file) /\ Strip(line) # <<>> /\ MatchesDiagnostic(line)
         THEN DiagnosticBranch(st, line)
         ELSE st

RECURSIVE ParseFrom(_, _, _)
ParseFrom(st, ls, i) ==
    IF i > Len(ls) THEN st ELSE ParseFrom(ParseStep(st, ls[i]), ls, i + 1)

\* the mapping parse_lint_output returns for a text
parse_lint_output(text) ==
    ParseFrom([current_file |-> None, errors_by_file |-> <<>>],
              SplitLines(text), 1).errors_by_file

----------------------------------------------------------------------------
(* sorted(..., key=...) *)

\* the positions 1..n of keys in ascending order of key, equal keys in their order
RECURSIVE StableOrder(_, _)
StableOrder(keys, n) ==
    IF n = 0 THEN <<>>
    ELSE LET prev == StableOrder(keys, n - 1)
             \* n goes after every position whose key is <= its own
             at == Cardinality({j \in 1..(n - 1) : keys[prev[j]] <= keys[n]})
         IN  SubSeq(prev, 1, at) \o <<n>> \o SubSeq(prev, at + 1, n - 1)

\* sorted(s, key=...): keys[i] is the key of s[i]
SortedBy(s, keys) ==
    LET o == StableOrder(keys, Len(s)) IN [i \in 1..Len(s) |-> s[o[i]]]

\* sorted(s, key=..., reverse=True): descending, equal keys in their order
SortedByDesc(s, keys) ==
    SortedBy(s, [i \in 1..Len(s) |-> 0 - keys[i]])

RECURSIVE SumSeq(_)
SumSeq(s) == IF s = <<>> THEN 0 ELSE Head(s) + SumSeq(Tail(s))

----------------------------------------------------------------------------
(* print_detailed_output and print_summary *)

\* CountSeverity testing for 'error' in both counts
CountSeverityErrorOnly(errors, sev) ==
    Len(SelectSeq(errors, LAMBDA e : e.severity = "error"))

\* sum(1 for _, _, severity in errors if severity == sev)
CountSeverity(errors, sev) ==
    Len(SelectSeq(errors, LAMBDA e : e.severity = sev))

\* file_path.replace(<project path>, '')
DisplayPath(file) == RemoveAll(file, PROJECT)

\* SortErrors with reverse=True, as in the sort of the files
SortErrorsReversed(errors) ==
    SortedByDesc(errors, [i \in 1..Len(errors) |-> errors[i].line_num])

\* sorted(errors, key=lambda x: x[0])
SortErrors(errors) ==
    SortedBy(errors, [i \in 1..Len(errors) |-> errors[i].line_num])

\* sorted(errors_by_file.items(), key=lambda x: len(x[1]), reverse=True)
SortFiles(m) ==
    SortedByDesc(m, [i \in 1..Len(m) |-> Len(m[i].errors)])

\* the block print_detailed_output prints for one file
DetailedBlock(entry) ==
    [ path          |-> DisplayPath(entry.file),
      error_count   |-> CountSeverity(entry.errors, "error"),
      warning_count |-> CountSeverity(entry.errors, "warning"),
      total         |-> Len(entry.errors),
      texts         |-> LET se == SortErrors(entry.errors)
                        IN  [i \in 1..Len(se) |-> se[i].text] ]

(* print_detailed_output: what it prints, and the mapping as the call leaves *)
(* it (sorted() builds new lists).                                          *)
print_detailed_output(m) ==
    [ printed        |-> LET sf == SortFiles(m)
                         IN  [i \in 1..Len(sf) |-> DetailedBlock(sf[i])],
      errors_by_file |-> m ]

\* lines 111-113: the rule of a rendered diagnostic, its last word
RuleOfText(text) ==
    LET parts == SplitWords(text) IN parts[Len(parts)]

\* categories[rule] += 1 on a defaultdict(int): a new rule goes last
CountRule(cats, rule) ==
    IF \E i \in 1..Len(cats) : cats[i].rule = rule
    THEN [i \in 1..Len(cats) |->
            IF cats[i].rule = rule
            THEN [rule |-> rule, count |-> cats[i].count + 1]
            ELSE cats[i]]
    ELSE Append(cats, [rule |-> rule, count |-> 1])

\* the loop of line 109
RECURSIVE Categories(_, _)
Categories(errors, n) ==
    IF n = 0 THEN <<>>
    ELSE LET cats == Categories(errors, n - 1)
         IN  IF Len(SplitWords(errors[n].text)) > 0
             THEN CountRule(cats, RuleOfText(errors[n].text))
             ELSE cats

\* lines 101-116: one entry of file_summaries
FileSummary(entry) ==
    [ path          |-> DisplayPath(entry.file),
      error_count   |-> CountSeverity(entry.errors, "error"),
      warning_count |-> CountSeverity(entry.errors, "warning"),
      total         |-> Len(entry.errors),
      categories    |-> Categories(entry.errors, Len(entry.errors)) ]

\* the number of categories print_summary shows one by one
TopN == 10

\* SortCategories without reverse=True
SortCategoriesAscending(cats) ==
    SortedBy(cats, [i \in 1..Len(cats) |-> cats[i].count])

\* sorted(categories.items(), key=lambda x: x[1], reverse=True)
SortCategories(cats) ==
    SortedByDesc(cats, [i \in 1..Len(cats) |-> cats[i].count])

\* sorted_categories[:10]
TopCategories(sorted_categories) ==
    SubSeq(sorted_categories, 1,
           IF Len(sorted_categories) < TopN THEN Len(sorted_categories) ELSE TopN)

\* lines 137-139: the '... and N more rules' line, when printed
MoreLine(sorted_categories) ==
    IF Len(sorted_categories) > TopN
    THEN << [ n         |-> Len(sorted_categories) - TopN,
              remaining |-> SumSeq([i \in 1..(Len(sorted_categories) - TopN) |->
                                      sorted_categories[TopN + i].count]) ] >>
    ELSE <<>>

\* lines 125-139: the block print_summary prints for one file
SummaryBlock(fs) ==
    LET sorted_categories == SortCategories(fs.categories)
    IN  [ path          |-> fs.path,
          error_count   |-> fs.error_count,
          warning_count |-> fs.warning_count,
          total         |-> fs.total,
          rows          |-> TopCategories(sorted_categories),
          more          |-> MoreLine(sorted_categories) ]

\* print_summary: what it prints
print_summary(m) ==
    LET file_summaries == [i \in 1..Len(m) |-> FileSummary(m[i])]
        sorted_summaries == SortedByDesc(file_summaries,
                               [i \in 1..Len(m) |-> file_summaries[i].total])
        total_errors == SumSeq([i \in 1..Len(m) |-> file_summaries[i].error_count])
        total_warnings == SumSeq([i \in 1..Len(m) |-> file_summaries[i].warning_count])
    IN  [ blocks         |-> [i \in 1..Len(m) |-> SummaryBlock(sorted_summaries[i])],
          total_errors   |-> total_errors,
          total_warnings |-> total_warnings,
          grand_total    |-> total_errors + total_warnings,
          files          |-> Len(file_summaries) ]

----------------------------------------------------------------------------
(* The captured texts of the main specification *)

\* headers: two files of the project (a .ts and a .tsx one), one outside it
HeaderA == <<"P", "a", ".ts">>
HeaderB == <<"P", "b", ".ts", "x">>
HeaderOut == <<"/", "o", ".ts">>
\* diagnostics: ' 1:3 error m r', ' 02:1 warning m @r'
DiagError == <<" ", "1", ":", "3", " ", "error", " ", "m", " ", "r">>
DiagWarning == <<" ", "0", "2", ":", "1", " ", "warning", " ", "m", " ", "@", "r">>
\* diagnostics whose message names a file: ' 2:2 warning a.ts r',
\* ' 1:1 error a.tsx r', ' 3:1 error <project path>a.tsx r', '\t1:1 error a.ts r'
DiagTs == <<" ", "2", ":", "2", " ", "warning", " ", "a", ".ts", " ", "r">>
DiagTsx == <<" ", "1", ":", "1", " ", "error", " ", "a", ".ts", "x", " ", "r">>
DiagProjectTsx ==
    <<" ", "3", ":", "1", " ", "error", " ", "P", "a", ".ts", "x", " ", "r">>
DiagTabTs == <<"\t", "1", ":", "1", " ", "error", " ", "a", ".ts", " ", "r">>
\* ' 1:1 error r': an error line with no message before the rule
DiagNoMessage == <<" ", "1", ":", "1", " ", "error", " ", "r">>
\* other text, and the empty line
OtherText == <<"m", " ", "m">>
EmptyLine == <<>>

CandidateLines ==
    { HeaderA, HeaderB, HeaderOut, DiagError, DiagWarning, DiagTs, DiagTsx,
      DiagProjectTsx, DiagTabTs, DiagNoMessage, OtherText, EmptyLine }

\* the sequences of at most n elements of S
RECURSIVE SeqsUpTo(_, _)
SeqsUpTo(S, n) ==
    IF n = 0 THEN {<<>>}
    ELSE LET shorter == SeqsUpTo(S, n - 1)
         IN  shorter \cup {Append(q, x) : q \in {r \in shorter : Len(r) = n - 1}, x \in S}

\* '\n'.join(ls)
RECURSIVE JoinLines(_)
JoinLines(ls) ==
    IF ls = <<>> THEN <<>>
    ELSE IF Len(ls) = 1 THEN ls[1]
    ELSE ls[1] \o <<NL>> \o JoinLines(Tail(ls))

Texts == {JoinLines(ls) : ls \in SeqsUpTo(CandidateLines, MaxLines)}

ReturnCodes == {0, 1}

----------------------------------------------------------------------------
(* main *)

Absent == <<"absent">>
LogNames == {"raw", "current", "latest"}

Init ==
    /\ pc = "start"
    /\ started = FALSE
    /\ returncode = 0
    /\ output = <<>>
    /\ logs = [n \in LogNames |-> Absent]
    /\ lines = <<>>
    /\ idx = 1
    /\ current_file = None
    /\ errors_by_file = <<>>
    /\ console = <<>>
    /\ summaryOut = <<>>
    /\ detailedLog = <<>>
    /\ exitStatus = 0

\* run_lint with check=True: a non-zero exit status of the command raises too
RunLintRaisesOnFailure(ok, rc) == ~ok \/ rc # 0

(* run_lint, lines 14-24: subprocess.run(..., check=False) raises only when  *)
(* the command cannot be run; its exit status rc raises nothing.            *)
RunLintRaises(ok, rc) == ~ok

\* lines 149-150: print, then run_lint: the text is kept, or the process exits 1
RunLint ==
    /\ pc = "start"
    /\ \E ok \in BOOLEAN, rc \in ReturnCodes, text \in Texts :
          /\ started' = ok
          /\ returncode' = rc
          /\ IF RunLintRaises(ok, rc)
             THEN /\ text = <<>>
                  /\ output' = output
                  /\ console' = console \o <<"Running npm lint...", "Error running lint">>
                  /\ exitStatus' = 1
                  /\ pc' = "done"
             ELSE /\ ok
                  /\ output' = text
                  /\ console' = Append(console, "Running npm lint...")
                  /\ exitStatus' = exitStatus
                  /\ pc' = "write_raw"
    /\ UNCHANGED << logs, lines, idx, current_file, errors_by_file,
                    summaryOut, detailedLog >>

\* with open(path, 'w') as f: f.write(output)
WriteLog(name, here, next) ==
    /\ pc = here
    /\ logs' = [logs EXCEPT ![name] = output]
    /\ pc' = next
    /\ UNCHANGED << started, returncode, output, lines, idx, current_file,
                    errors_by_file, console, summaryOut, detailedLog, exitStatus >>

\* lines 153-155
WriteRawLog == WriteLog("raw", "write_raw", "write_current")
\* lines 158-162
WriteCurrentLog == WriteLog("current", "write_current", "write_latest")
\* lines 165-167
WriteLatestLog == WriteLog("latest", "write_latest", "begin_parse")

\* lines 169-175 and 28-35: print the log paths, enter parse_lint_output
BeginParse ==
    /\ pc = "begin_parse"
    /\ console' = Append(console, "Logs saved to:")
    /\ errors_by_file' = <<>>
    /\ current_file' = None
    /\ lines' = SplitLines(output)
    /\ idx' = 1
    /\ pc' = "parse"
    /\ UNCHANGED << started, returncode, output, logs, summaryOut, detailedLog,
                    exitStatus >>

\* lines 37-57: one pass of the loop
ParseLine ==
    /\ pc = "parse"
    /\ idx <= Len(lines)
    /\ LET st == ParseStep([current_file |-> current_file,
                            errors_by_file |-> errors_by_file], lines[idx])
       IN  /\ current_file' = st.current_file
           /\ errors_by_file' = st.errors_by_file
    /\ idx' = idx + 1
    /\ UNCHANGED << pc, started, returncode, output, logs, lines, console,
                    summaryOut, detailedLog, exitStatus >>

\* line 177: `not errors_by_file`
NothingFound(m) == m = <<>>

\* ParseReturn without the return of line 179
ParseReturnFallingThrough ==
    /\ pc = "parse"
    /\ idx > Len(lines)
    /\ console' = IF NothingFound(errors_by_file)
                  THEN Append(console, "No errors found!") ELSE console
    /\ pc' = "summary"
    /\ UNCHANGED << started, returncode, output, logs, lines, idx, current_file,
                    errors_by_file, summaryOut, detailedLog, exitStatus >>

\* lines 59 and 177-179: the loop is over; with nothing found main prints and returns
ParseReturn ==
    /\ pc = "parse"
    /\ idx > Len(lines)
    /\ IF NothingFound(errors_by_file)
       THEN /\ console' = Append(console, "No errors found!")
            /\ pc' = "done"
       ELSE /\ console' = console
            /\ pc' = "summary"
    /\ UNCHANGED << started, returncode, output, logs, lines, idx, current_file,
                    errors_by_file, summaryOut, detailedLog, exitStatus >>

\* line 182
PrintSummary ==
    /\ pc = "summary"
    /\ summaryOut' = Append(summaryOut, print_summary(errors_by_file))
    /\ pc' = "detailed"
    /\ UNCHANGED << started, returncode, output, logs, lines, idx, current_file,
                    errors_by_file, console, detailedLog, exitStatus >>

\* lines 185-193: print_detailed_output into the detailed log, then the last print
WriteDetailedLog ==
    /\ pc = "detailed"
    /\ LET r == print_detailed_output(errors_by_file)
       IN  /\ detailedLog' = Append(detailedLog, r.printed)
           /\ errors_by_file' = r.errors_by_file
    /\ console' = Append(console, "Detailed output saved to:")
    /\ pc' = "done"
    /\ UNCHANGED << started, returncode, output, logs, lines, idx, current_file,
                    summaryOut, exitStatus >>

Next ==
    \/ RunLint
    \/ WriteRawLog
    \/ WriteCurrentLog
    \/ WriteLatestLog
    \/ BeginParse
    \/ ParseLine
    \/ ParseReturn
    \/ PrintSummary
    \/ WriteDetailedLog

Spec == Init /\ [][Next]_vars

----------------------------------------------------------------------------
(* The report specification: print_summary and print_detailed_output on the  *)
(* mappings parse_lint_output returns for two families of captured texts.   *)

\* the sequences of n counts >= 1 whose sum is at most m
RECURSIVE Compositions(_, _)
Compositions(n, m) ==
    IF n = 0 THEN {<<>>}
    ELSE UNION { {<<k>> \o c : c \in Compositions(n - 1, m - k)} : k \in 1..(m - n + 1) }

\* the k-th diagnostic of a summary text: a line number 1..3, either severity
RuleLine(rule, k) ==
    <<" ">> \o FormatInt((k % 3) + 1) \o <<":", "1", " ">>
      \o <<IF k % 2 = 0 THEN "error" ELSE "warning">> \o <<" ", "m", " ", "r">>
      \o FormatInt(rule)

\* the diagnostics of rules i..Len(c), c[j] lines for rule j; k lines came before
RECURSIVE RuleLines(_, _, _)
RuleLines(c, i, k) ==
    IF i > Len(c) THEN <<>>
    ELSE [j \in 1..c[i] |-> RuleLine(i, k + j)] \o RuleLines(c, i + 1, k + c[i])

\* one file with n <= MaxRules distinct rules in at most n + MaxExtra diagnostics
SummaryTexts ==
    { JoinLines(<<HeaderA>> \o RuleLines(c, 1, 0)) :
        c \in UNION {Compositions(n, n + MaxExtra) : n \in 1..MaxRules} }

\* diagnostics ' 1:1 error m r', ' 1:2 warning m r', ' 2:1 error m r'
Diag11 == <<" ", "1", ":", "1", " ", "error", " ", "m", " ", "r">>
Diag12 == <<" ", "1", ":", "2", " ", "warning", " ", "m", " ", "r">>
Diag21 == <<" ", "2", ":", "1", " ", "error", " ", "m", " ", "r">>

\* two files, diagnostics with equal and with different line numbers, in any order
DetailTexts ==
    { JoinLines(ls) :
        ls \in SeqsUpTo({HeaderA, HeaderB, Diag11, Diag12, Diag21}, MaxDetailLines) }

\* each text with the state parse_lint_output ends in; main reaches
\* print_summary only with a mapping that is not empty
ReportInputs ==
    { in \in { [ text |-> t,
                 st   |-> ParseFrom([current_file |-> None, errors_by_file |-> <<>>],
                                    SplitLines(t), 1) ] :
               t \in SummaryTexts \cup DetailTexts } :
        ~NothingFound(in.st.errors_by_file) }

\* main at line 182, after a run on one of the report texts
InitReport ==
    /\ pc = "summary"
    /\ started = TRUE
    /\ returncode = 1
    /\ \E in \in ReportInputs :
          /\ output = in.text
          /\ current_file = in.st.current_file
          /\ errors_by_file = in.st.errors_by_file
    /\ logs = [n \in LogNames |-> output]
    /\ lines = SplitLines(output)
    /\ idx = Len(lines) + 1
    /\ console = <<"Running npm lint...", "Logs saved to:">>
    /\ summaryOut = <<>>
    /\ detailedLog = <<>>
    /\ exitStatus = 0

\* print_detailed_output called once more on the mapping main holds
RenderAgain ==
    /\ pc = "done"
    /\ Len(detailedLog) = 1
    /\ LET r == print_detailed_output(errors_by_file)
       IN  /\ detailedLog' = Append(detailedLog, r.printed)
           /\ errors_by_file' = r.errors_by_file
    /\ UNCHANGED << pc, started, returncode, output, logs, lines, idx, current_file,
                    console, summaryOut, exitStatus >>

NextReport ==
    \/ PrintSummary
    \/ WriteDetailedLog
    \/ RenderAgain

SpecReport == InitReport /\ [][NextReport]_vars

----------------------------------------------------------------------------
(* The words of the specification, used to state the claims *)

\* a file-header line: non-empty, no leading whitespace, holds '.ts' or '.tsx'
IsFileHeaderLine(line) ==
    /\ line # <<>>
    /\ ~IsSpace(Head(line))
    /\ (Contains(line, TS) \/ Contains(line, TSX))

\* a diagnostic line that decomposes into message and rule
IsDiagnosticLine(line) ==
    line # <<>> /\ MatchesDiagnostic(line) /\ Decomposes(line)

\* the loop of parse_lint_output is about to read lines[idx]
AtLine == pc = "parse" /\ idx <= Len(lines)

\* the records of a file in a mapping
FileErrors(m, file) ==
    IF HasKey(m, file) THEN m[CHOOSE i \in 1..Len(m) : m[i].file = file].errors
    ELSE <<>>

\* the last of the first n lines that is a header of a file of the project, or 0
LastProjectHeader(ls, n) ==
    LET hs == {j \in 1..n : IsFileHeaderLine(ls[j]) /\ InProject(ls[j])}
    IN  IF hs = {} THEN 0 ELSE CHOOSE j \in hs : \A k \in hs : k <= j

----------------------------------------------------------------------------
(* Claims on parse_lint_output *)

(* C1: when current file is set and the line read is a diagnostic line that  *)
(* decomposes, exactly one record is appended to the list of the current    *)
(* file, whatever its message holds; the records before it keep their       *)
(* order.                                                                   *)
C1_EveryDiagnosticAppended ==
    [][ (AtLine /\ Truthy(current_file) /\ IsDiagnosticLine(lines[idx]))
          => FileErrors(errors_by_file', current_file)
               = Append(FileErrors(errors_by_file, current_file),
                        MakeRecord(lines[idx])) ]_vars

(* C2: current file changes only on a file-header line that holds the        *)
(* project path, and then becomes the trimmed line; a line that begins with *)
(* whitespace never changes it.                                             *)
C2_CurrentFileOnlyOnHeader ==
    [][ current_file' # current_file
          => /\ AtLine
             /\ IsFileHeaderLine(lines[idx])
             /\ InProject(lines[idx])
             /\ current_file' = Strip(lines[idx]) ]_vars

(* C3: a header of a file outside the project leaves current file as it is, *)
(* and every diagnostic line after such a header that follows a header of   *)
(* the project, up to the next header of the project, is recorded under the *)
(* file of that last project header.                                        *)
C3_ContinuationOfAttribution ==
    [][ AtLine =>
          LET p == LastProjectHeader(lines, idx - 1)
              afterOut == \E j \in (p + 1)..(idx - 1) :
                              IsFileHeaderLine(lines[j]) /\ ~InProject(lines[j])
          IN  /\ (IsFileHeaderLine(lines[idx]) /\ ~InProject(lines[idx]))
                    => current_file' = current_file
              /\ (p > 0 /\ afterOut /\ IsDiagnosticLine(lines[idx]))
                    => FileErrors(errors_by_file', Strip(lines[p]))
                         = Append(FileErrors(errors_by_file, Strip(lines[p])),
                                  MakeRecord(lines[idx])) ]_vars

(* C4: every key of the mapping is the trimmed content of an earlier line    *)
(* that holds the project path, and no record is produced before the first  *)
(* header of a file of the project.                                         *)
C4_OnlyProjectFiles ==
    /\ \A i \in 1..Len(errors_by_file) :
          \E j \in 1..(idx - 1) :
              InProject(lines[j]) /\ errors_by_file[i].file = Strip(lines[j])
    /\ errors_by_file # <<>> => LastProjectHeader(lines, idx - 1) > 0

----------------------------------------------------------------------------
(* Claims on main *)

\* current file as the loop of parse_lint_output finds it at line i of ls
CurrentFileAt(ls, i) ==
    ParseFrom([current_file |-> None, errors_by_file |-> <<>>],
              SubSeq(ls, 1, i - 1), 1).current_file

\* no line of the text is a matching diagnostic line: one met with current
\* file set, not empty, that matches the diagnostic pattern
NoDiagnosticLines(text) ==
    LET ls == SplitLines(text)
    IN  \A i \in 1..Len(ls) :
            ~(Truthy(CurrentFileAt(ls, i)) /\ ls[i] # <<>> /\ MatchesDiagnostic(ls[i]))

(* C5: for a captured text with no matching diagnostic line the mapping is  *)
(* empty, and main prints 'No errors found!' and returns: print_summary and *)
(* print_detailed_output are not called, the detailed log is not written.   *)
C5_NothingFound ==
    (started /\ NoDiagnosticLines(output))
      => /\ errors_by_file = <<>>
         /\ pc \notin {"summary", "detailed"}
         /\ summaryOut = <<>>
         /\ detailedLog = <<>>
         /\ pc = "done"
              => console = <<"Running npm lint...", "Logs saved to:", "No errors found!">>

\* C5 witness: a run on a text of file headers only has returned
C5_Witness ==
    /\ pc = "done"
    /\ started
    /\ output = HeaderA \o <<NL>> \o HeaderB
    /\ console[Len(console)] = "No errors found!"

\* the run stopped in run_lint: nothing written, parsed or rendered
Aborted ==
    /\ ~started
    /\ exitStatus = 1
    /\ \A n \in LogNames : logs[n] = Absent
    /\ lines = <<>>
    /\ errors_by_file = <<>>
    /\ summaryOut = <<>>
    /\ detailedLog = <<>>

\* the whole pipeline ran: both views rendered, once each
Completed ==
    /\ started
    /\ \A n \in LogNames : logs[n] = output
    /\ Len(summaryOut) = 1
    /\ Len(detailedLog) = 1

\* the run returned at line 179: raw logs written, no view rendered
ReturnedEmpty ==
    /\ started
    /\ \A n \in LogNames : logs[n] = output
    /\ errors_by_file = <<>>
    /\ console[Len(console)] = "No errors found!"
    /\ summaryOut = <<>>
    /\ detailedLog = <<>>

----------------------------------------------------------------------------
(* Claims on print_summary and print_detailed_output *)

\* the number of records of a file with a given rule, the last word of their text
RuleCount(errors, rule) ==
    Cardinality({i \in 1..Len(errors) : RuleOfText(errors[i].text) = rule})

RulesOf(errors) == {RuleOfText(errors[i].text) : i \in 1..Len(errors)}

\* the records of the mapping
TotalRecords(m) == SumSeq([i \in 1..Len(m) |-> Len(m[i].errors)])

\* the blocks of a view for the file of an entry of the mapping
BlocksOf(blocks, entry) ==
    {k \in 1..Len(blocks) : blocks[k].path = RemoveAll(entry.file, PROJECT)}

(* C8: in both views the error count plus the warning count of a file is    *)
(* the number of its records; the grand total of the summary is the number  *)
(* of records of all files, and its file count the number of keys.          *)
C8_Counting ==
    /\ \A s \in 1..Len(summaryOut) :
          LET so == summaryOut[s]
          IN  /\ so.files = Len(errors_by_file)
              /\ Len(so.blocks) = Len(errors_by_file)
              /\ so.grand_total = so.total_errors + so.total_warnings
              /\ so.grand_total = TotalRecords(errors_by_file)
              /\ \A i \in 1..Len(errors_by_file) :
                    /\ Cardinality(BlocksOf(so.blocks, errors_by_file[i])) = 1
                    /\ \A k \in BlocksOf(so.blocks, errors_by_file[i]) :
                          /\ so.blocks[k].total = Len(errors_by_file[i].errors)
                          /\ so.blocks[k].error_count + so.blocks[k].warning_count
                               = Len(errors_by_file[i].errors)
    /\ \A d \in 1..Len(detailedLog) :
          \A i \in 1..Len(errors_by_file) :
              /\ Cardinality(BlocksOf(detailedLog[d], errors_by_file[i])) = 1
              /\ \A k \in BlocksOf(detailedLog[d], errors_by_file[i]) :
                    /\ detailedLog[d][k].total = Len(errors_by_file[i].errors)
                    /\ detailedLog[d][k].error_count + detailedLog[d][k].warning_count
                         = Len(errors_by_file[i].errors)

\* C8 witness: both views rendered for two files, one with errors and warnings
C8_Witness ==
    /\ Len(summaryOut) = 1
    /\ Len(detailedLog) >= 1
    /\ Len(errors_by_file) = 2
    /\ \E k \in 1..2 : /\ summaryOut[1].blocks[k].error_count > 0
                       /\ summaryOut[1].blocks[k].warning_count > 0

(* C9: a summary block prints distinct rules with their counts, highest     *)
(* first.  With at most 10 distinct rules all are printed, no '... and N    *)
(* more rules' line, and the counts sum to the records of the file.  With   *)
(* more, the 10 printed are rules of highest count, N is the number of      *)
(* distinct rules less 10, and the 10 counts plus the remainder make the    *)
(* records of the file.                                                     *)
C9_Histogram ==
    \A s \in 1..Len(summaryOut) :
      \A i \in 1..Len(errors_by_file) :
        \A k \in BlocksOf(summaryOut[s].blocks, errors_by_file[i]) :
          LET b == summaryOut[s].blocks[k]
              errors == errors_by_file[i].errors
              rules == RulesOf(errors)
              shown == {b.rows[r].rule : r \in 1..Len(b.rows)}
              shownSum == SumSeq([r \in 1..Len(b.rows) |-> b.rows[r].count])
          IN  /\ Cardinality(shown) = Len(b.rows)
              /\ \A r \in 1..Len(b.rows) :
                    /\ b.rows[r].rule \in rules
                    /\ b.rows[r].count = RuleCount(errors, b.rows[r].rule)
              /\ \A r \in 1..(Len(b.rows) - 1) : b.rows[r].count >= b.rows[r + 1].count
              /\ IF Cardinality(rules) <= 10
                 THEN /\ b.more = <<>>
                      /\ shown = rules
                      /\ shownSum = Len(errors)
                 ELSE /\ Len(b.rows) = 10
                      /\ \A x \in rules \ shown : \A r \in 1..10 :
                            RuleCount(errors, x) <= b.rows[r].count
                      /\ Len(b.more) = 1
                      /\ b.more[1].n = Cardinality(rules) - 10
                      /\ shownSum + b.more[1].remaining = Len(errors)

\* C9 witness: a file with more than 10 rules of different counts was summarised
C9_Witness ==
    /\ Len(summaryOut) = 1
    /\ \E k \in 1..Len(summaryOut[1].blocks) :
          LET b == summaryOut[1].blocks[k]
          IN  /\ b.more # <<>>
              /\ b.rows[1].count > b.rows[10].count
              /\ b.rows[1].rule # RuleOfText(errors_by_file[1].errors[1].text)

\* the place of element i of a stable ascending sort of keys
AscendingPlace(keys, i) ==
    1 + Cardinality({j \in 1..Len(keys) :
                        keys[j] < keys[i] \/ (keys[j] = keys[i] /\ j < i)})

\* the place of element i of a stable descending sort of keys
DescendingPlace(keys, i) ==
    1 + Cardinality({j \in 1..Len(keys) :
                        keys[j] > keys[i] \/ (keys[j] = keys[i] /\ j < i)})

(* C10: the detailed view has one block per file, files with more records   *)
(* first and files with as many in the order of the mapping; a block prints *)
(* every record of its file once, by ascending line number, records of one  *)
(* line number in the order they were met.  The mapping is left as parsed,  *)
(* and a second rendering equals the first.                                 *)
C10_DetailedOrder ==
    /\ \A d \in 1..Len(detailedLog) :
          LET blocks == detailedLog[d]
              counts == [i \in 1..Len(errors_by_file) |-> Len(errors_by_file[i].errors)]
          IN  /\ Len(blocks) = Len(errors_by_file)
              /\ \A i \in 1..Len(errors_by_file) :
                    LET b == blocks[DescendingPlace(counts, i)]
                        errors == errors_by_file[i].errors
                        nums == [r \in 1..Len(errors) |-> errors[r].line_num]
                    IN  /\ b.path = RemoveAll(errors_by_file[i].file, PROJECT)
                        /\ Len(b.texts) = Len(errors)
                        /\ \A r \in 1..Len(errors) :
                              b.texts[AscendingPlace(nums, r)] = errors[r].text
    /\ detailedLog # <<>> => errors_by_file = parse_lint_output(output)
    /\ Len(detailedLog) = 2 => detailedLog[1] = detailedLog[2]

(* C10 witness: rendered twice, the second file of the mapping first, its   *)
(* two records of one line number kept in the order met, against the order  *)
(* of their columns.                                                        *)
C10_Witness ==
    /\ Len(detailedLog) = 2
    /\ Len(errors_by_file) = 2
    /\ Len(errors_by_file[1].errors) = 1
    /\ errors_by_file[2].errors = <<MakeRecord(Diag12), MakeRecord(Diag11)>>
    /\ detailedLog[2][1].path = RemoveAll(errors_by_file[2].file, PROJECT)

====
